---- MODULE Spec2Model ----
(***************************************************************************)
(* The bridget store of the frontend (core/frontend/src/store/bridget.ts): *)
(* a Vuex module holding the available bridges and serial ports, two       *)
(* periodically called fetch actions, and their promise callbacks.         *)
(*                                                                         *)
(* One step of the model is one piece of JavaScript that runs to           *)
(* completion: the body of a fetch action up to the request, a then or     *)
(* catch callback, a finally callback, or a mutation called from outside.  *)
(* The callbacks of one promise chain run in consecutive microtasks, so    *)
(* between a then/catch callback and its finally callback no timer, no     *)
(* other response and no user event is handled.                            *)
(***************************************************************************)
EXTENDS Integers, Sequences, FiniteSets, TLC

VARIABLES
    state,          \* the fields of BridgetStore
    notifications,  \* what notifications.pushError has received, in order
    outstanding,    \* per endpoint, the requests sent and not yet settled
    pc,             \* position in the module's top-level code
    last,           \* the callback that ran last (and the value it handled)
    history         \* per endpoint, the data of its latest fulfilled request
                    \* and whether a request of it was rejected since

vars == <<state, notifications, outstanding, pc, last, history>>

----------------------------------------------------------------------------
(* Bounds of the model. *)

\* requests of one endpoint that may be awaiting their response at once
MaxOutstanding == 2
\* notifications kept; a failure that would exceed it is not taken
MaxNotifications == 2

----------------------------------------------------------------------------
(* Constants of the program. *)

\* the interval of both periodic calls, in ms (lines 134-135)
interval == 5000
\* the timeout of both requests, in ms (lines 86 and 112)
timeout == 10000

----------------------------------------------------------------------------
(* Values. *)

ResourceTypes == {"bridges", "serial_ports"}

\* bodies the /bridges endpoint answers with
BridgePayloads == {<<>>, <<"b1">>, <<"b1", "b2">>}
\* bodies the /serial_ports endpoint answers with
SerialPortPayloads == {<<>>, <<"p1">>, <<"p1", "p2">>}

\* the one error object that utils/api exports for an unreachable backend
backend_offline_error == "backend_offline_error"
\* the errors a request may be rejected with
Errors == {backend_offline_error, "timeout of 10000ms exceeded",
           "Request failed with status code 500"}

\* an error object of the same kind as backend_offline_error that is not
\* that object: a copy or a wrapper made by a layer between utils/api and
\* the store
offline_error_copy == "copy of backend_offline_error"
\* the kind of failure an error object stands for
kind(error) ==
    IF error \in {backend_offline_error, offline_error_copy}
    THEN "offline"
    ELSE "other"

bridget_service == "bridget_service"

\* what a promise is settled with
Fulfilled(data) == [settled |-> "fulfilled", data |-> data, error |-> "none"]
Rejected(error) == [settled |-> "rejected", data |-> <<>>, error |-> error]
NoValue == [settled |-> "none", data |-> <<>>, error |-> "none"]
\* how a call of a fetch action ended: it returned early, or sent a request
Skipped == [settled |-> "skipped", data |-> <<>>, error |-> "none"]
Pending == [settled |-> "pending", data |-> <<>>, error |-> "none"]

Ran(op, of, value) == [op |-> op, of |-> of, value |-> value]

----------------------------------------------------------------------------
(* The mutations of BridgetStore, as functions of the module state. *)

setUpdatingBridges(s, updating) == [s EXCEPT !.updating_bridges = updating]

setUpdatingSerialPorts(s, updating) ==
    [s EXCEPT !.updating_serial_ports = updating]

setPrefetchedBridges(s, prefetched) ==
    [s EXCEPT !.prefetched_bridges = prefetched]

setPrefetchedSerialPorts(s, prefetched) ==
    [s EXCEPT !.prefeteched_serial_ports = prefetched]

setAvailableBridges(s, available_bridges) ==
    [s EXCEPT !.available_bridges = available_bridges,
              !.updating_bridges = FALSE]

setAvailableSerialPorts(s, available_serial_ports) ==
    [s EXCEPT !.available_serial_ports = available_serial_ports,
              !.updating_bridges = FALSE]

startFetchingMutation(s) == [s EXCEPT !.should_fetch = TRUE]

\* stopFetching as a copy of startFetching
stopFetchingMutation_copied(s) == [s EXCEPT !.should_fetch = TRUE]

stopFetchingMutation(s) == [s EXCEPT !.should_fetch = FALSE]

----------------------------------------------------------------------------
(* Collaborators whose code is outside the store. *)

\* notifications.pushError: the sink keeps what it is given
pushError(ns, n) == Append(ns, n)

\* back_axios: sends one request to the endpoint
back_axios(out, endpoint) == [out EXCEPT ![endpoint] = @ + 1]

\* a request of the endpoint settles
settle(out, endpoint) == [out EXCEPT ![endpoint] = @ - 1]

\* the endpoint has answered a request with data
fulfilled(h, endpoint, data) ==
    [h EXCEPT ![endpoint] = [data |-> data, failed |-> FALSE]]

\* a request of the endpoint has been rejected
rejected(h, endpoint) == [h EXCEPT ![endpoint].failed = TRUE]

----------------------------------------------------------------------------
(* The initial state: the fields of a new BridgetStore, before the module  *)
(* registers its periodic calls.                                           *)

\* a store that is born with the serial ports warmed
BridgetStore_warm ==
    [available_bridges |-> <<>>,
     available_serial_ports |-> <<>>,
     should_fetch |-> FALSE,
     updating_bridges |-> TRUE,
     updating_serial_ports |-> TRUE,
     prefetched_bridges |-> FALSE,
     prefeteched_serial_ports |-> TRUE]

BridgetStore ==
    [available_bridges |-> <<>>,
     available_serial_ports |-> <<>>,
     should_fetch |-> FALSE,
     updating_bridges |-> TRUE,
     updating_serial_ports |-> TRUE,
     prefetched_bridges |-> FALSE,
     prefeteched_serial_ports |-> FALSE]

Init ==
    /\ state = BridgetStore
    /\ notifications = <<>>
    /\ outstanding = [t \in ResourceTypes |-> 0]
    /\ pc = "L134"
    /\ last = Ran("getModule", "none", NoValue)
    /\ history = [t \in ResourceTypes |-> [data |-> <<>>, failed |-> FALSE]]

\* the record of a resource type, as the views read it
items(s, t) ==
    IF t = "bridges" THEN s.available_bridges ELSE s.available_serial_ports

updating(s, t) ==
    IF t = "bridges" THEN s.updating_bridges ELSE s.updating_serial_ports

warmed(s, t) ==
    IF t = "bridges" THEN s.prefetched_bridges ELSE s.prefeteched_serial_ports

\* a promise chain is between its then/catch callback and its finally callback
ChainRunning == last.op \in {"then", "catch"}

\* the event loop is free to take a timer, a response or a user event
Idle == pc = "running" /\ ~ChainRunning

----------------------------------------------------------------------------
(* fetchAvailableBridges, lines 79-87: the skip test and the request. *)

skipBridges(s) == s.prefetched_bridges /\ ~s.should_fetch

fetchAvailableBridges ==
    IF skipBridges(state)
    THEN /\ last' = Ran("fetch", "bridges", Skipped)
         /\ UNCHANGED <<state, notifications, outstanding, history>>
    ELSE /\ outstanding["bridges"] < MaxOutstanding
         /\ outstanding' = back_axios(outstanding, "bridges")
         /\ last' = Ran("fetch", "bridges", Pending)
         /\ UNCHANGED <<state, notifications, history>>

(* fetchAvailableSerialPorts, lines 105-113. *)

\* the skip test reading the other type's flag
skipSerialPorts_otherFlag(s) == s.prefetched_bridges /\ ~s.should_fetch

\* the skip test without the should_fetch override
skipSerialPorts_noOverride(s) == s.prefeteched_serial_ports

skipSerialPorts(s) == s.prefeteched_serial_ports /\ ~s.should_fetch

fetchAvailableSerialPorts ==
    IF skipSerialPorts(state)
    THEN /\ last' = Ran("fetch", "serial_ports", Skipped)
         /\ UNCHANGED <<state, notifications, outstanding, history>>
    ELSE /\ outstanding["serial_ports"] < MaxOutstanding
         /\ outstanding' = back_axios(outstanding, "serial_ports")
         /\ last' = Ran("fetch", "serial_ports", Pending)
         /\ UNCHANGED <<state, notifications, history>>

----------------------------------------------------------------------------
(* The callbacks of fetchAvailableBridges, lines 88-101. *)

BridgesNotification(error) ==
    [service |-> bridget_service,
     type |-> "BRIDGES_FETCH_FAIL",
     message |-> <<"Could not fetch available bridges: ", error>>]

\* a success that lists the bridges without recording the warm-up
thenBridges_noWarm(s, data) == setAvailableBridges(s, data)

\* .then((response) => ...), lines 88-92
thenBridges(s, data) == setPrefetchedBridges(setAvailableBridges(s, data), TRUE)

\* a failure that also forgets the warm-up
catchBridges_coolsDown(s) ==
    setPrefetchedBridges(setAvailableBridges(s, <<>>), FALSE)

\* a failure that leaves the listed bridges as they were
catchBridges_keepsStale(s) == s

\* .catch((error) => ...), lines 93-98: the store
catchBridges(s) == setAvailableBridges(s, <<>>)

\* the report dropping a notification the sink already holds
reportBridges_deduplicated(ns, error) ==
    IF \/ error = backend_offline_error
       \/ \E i \in 1..Len(ns) : ns[i] = BridgesNotification(error)
    THEN ns
    ELSE pushError(ns, BridgesNotification(error))

\* the report without the test for the offline error
reportBridges_always(ns, error) == pushError(ns, BridgesNotification(error))

\* .catch((error) => ...), lines 95-97: the report
reportBridges(ns, error) ==
    IF error = backend_offline_error
    THEN ns
    ELSE pushError(ns, BridgesNotification(error))

\* .finally(() => ...), lines 99-101
finallyBridges(s) == setUpdatingBridges(s, FALSE)

fetchAvailableBridges_then(data) ==
    /\ Idle
    /\ outstanding["bridges"] > 0
    /\ outstanding' = settle(outstanding, "bridges")
    /\ state' = thenBridges(state, data)
    /\ last' = Ran("then", "bridges", Fulfilled(data))
    /\ history' = fulfilled(history, "bridges", data)
    /\ UNCHANGED <<notifications, pc>>

fetchAvailableBridges_catch(error) ==
    /\ Idle
    /\ outstanding["bridges"] > 0
    /\ error # backend_offline_error => Len(notifications) < MaxNotifications
    /\ outstanding' = settle(outstanding, "bridges")
    /\ state' = catchBridges(state)
    /\ notifications' = reportBridges(notifications, error)
    /\ last' = Ran("catch", "bridges", Rejected(error))
    /\ history' = rejected(history, "bridges")
    /\ UNCHANGED pc

fetchAvailableBridges_finally ==
    /\ ChainRunning
    /\ last.of = "bridges"
    /\ state' = finallyBridges(state)
    /\ last' = Ran("finally", "bridges", last.value)
    /\ UNCHANGED <<notifications, outstanding, pc, history>>

----------------------------------------------------------------------------
(* The callbacks of fetchAvailableSerialPorts, lines 114-127. *)

\* the notification of the serial ports carrying the type of the bridges
SerialPortsNotification_bridgesType(error) ==
    [service |-> bridget_service,
     type |-> "BRIDGES_FETCH_FAIL",
     message |-> <<"Could not fetch available serial ports: ", error>>]

SerialPortsNotification(error) ==
    [service |-> bridget_service,
     type |-> "BRIDGET_SERIAL_PORTS_FETCH_FAIL",
     message |-> <<"Could not fetch available serial ports: ", error>>]

\* a success committing the serial ports' data as the listed bridges
thenSerialPorts_intoBridges(s, data) ==
    setPrefetchedSerialPorts(setAvailableBridges(s, data), TRUE)

\* .then((response) => ...), lines 114-118
thenSerialPorts(s, data) ==
    setPrefetchedSerialPorts(setAvailableSerialPorts(s, data), TRUE)

\* a failure that keeps the items it finds
catchSerialPorts_keepsStale(s) == [s EXCEPT !.updating_bridges = FALSE]

\* .catch((error) => ...), lines 119-124: the store
catchSerialPorts(s) == setAvailableSerialPorts(s, <<>>)

\* .catch((error) => ...), lines 121-123: the report
reportSerialPorts(ns, error) ==
    IF error = backend_offline_error
    THEN ns
    ELSE pushError(ns, SerialPortsNotification(error))

\* a chain without its finally callback
finallySerialPorts_missing(s) == s

\* the finally callback clearing the other type's flag
finallySerialPorts_otherFlag(s) == setUpdatingBridges(s, FALSE)

\* .finally(() => ...), lines 125-127
finallySerialPorts(s) == setUpdatingSerialPorts(s, FALSE)

fetchAvailableSerialPorts_then(data) ==
    /\ Idle
    /\ outstanding["serial_ports"] > 0
    /\ outstanding' = settle(outstanding, "serial_ports")
    /\ state' = thenSerialPorts(state, data)
    /\ last' = Ran("then", "serial_ports", Fulfilled(data))
    /\ history' = fulfilled(history, "serial_ports", data)
    /\ UNCHANGED <<notifications, pc>>

fetchAvailableSerialPorts_catch(error) ==
    /\ Idle
    /\ outstanding["serial_ports"] > 0
    /\ error # backend_offline_error => Len(notifications) < MaxNotifications
    /\ outstanding' = settle(outstanding, "serial_ports")
    /\ state' = catchSerialPorts(state)
    /\ notifications' = reportSerialPorts(notifications, error)
    /\ last' = Ran("catch", "serial_ports", Rejected(error))
    /\ history' = rejected(history, "serial_ports")
    /\ UNCHANGED pc

fetchAvailableSerialPorts_finally ==
    /\ ChainRunning
    /\ last.of = "serial_ports"
    /\ state' = finallySerialPorts(state)
    /\ last' = Ran("finally", "serial_ports", last.value)
    /\ UNCHANGED <<notifications, outstanding, pc, history>>

----------------------------------------------------------------------------
(* The mutations the views commit: startFetching and stopFetching. *)

startFetching ==
    /\ Idle
    /\ state' = startFetchingMutation(state)
    /\ last' = Ran("startFetching", "none", NoValue)
    /\ UNCHANGED <<notifications, outstanding, pc, history>>

stopFetching ==
    /\ Idle
    /\ state' = stopFetchingMutation(state)
    /\ last' = Ran("stopFetching", "none", NoValue)
    /\ UNCHANGED <<notifications, outstanding, pc, history>>

----------------------------------------------------------------------------
(* callPeriodically, lines 134-135: the function is called at once, when   *)
(* the module is loaded, and then again at every interval.                 *)

\* line 134, the first call
callPeriodically_bridges ==
    /\ pc = "L134"
    /\ fetchAvailableBridges
    /\ pc' = "L135"

\* line 135, the first call
callPeriodically_serial_ports ==
    /\ pc = "L135"
    /\ fetchAvailableSerialPorts
    /\ pc' = "running"

\* the timer of tick_bridges never fires again once a failure was reported
tick_bridges_untilFailure ==
    /\ Idle
    /\ notifications = <<>>
    /\ fetchAvailableBridges
    /\ UNCHANGED pc

\* a later call of line 134's timer; it can find a request of an earlier
\* call unanswered only because a request may take longer than the interval
tick_bridges ==
    /\ Idle
    /\ outstanding["bridges"] > 0 => interval < timeout
    /\ fetchAvailableBridges
    /\ UNCHANGED pc

\* a later call of line 135's timer
tick_serial_ports ==
    /\ Idle
    /\ outstanding["serial_ports"] > 0 => interval < timeout
    /\ fetchAvailableSerialPorts
    /\ UNCHANGED pc

----------------------------------------------------------------------------

Next ==
    \/ callPeriodically_bridges
    \/ callPeriodically_serial_ports
    \/ tick_bridges
    \/ tick_serial_ports
    \/ \E data \in BridgePayloads : fetchAvailableBridges_then(data)
    \/ \E error \in Errors : fetchAvailableBridges_catch(error)
    \/ fetchAvailableBridges_finally
    \/ \E data \in SerialPortPayloads : fetchAvailableSerialPorts_then(data)
    \/ \E error \in Errors : fetchAvailableSerialPorts_catch(error)
    \/ fetchAvailableSerialPorts_finally
    \/ startFetching
    \/ stopFetching

Spec == Init /\ [][Next]_vars

\* The same program on a transport that may also reject a request with an
\* offline error that is not the exported object.
NextAnyError ==
    \/ Next
    \/ fetchAvailableBridges_catch(offline_error_copy)
    \/ fetchAvailableSerialPorts_catch(offline_error_copy)

SpecAnyError == Init /\ [][NextAnyError]_vars

----------------------------------------------------------------------------
(* The same program under the scheduling the claims about progress assume: *)
(* the module's top-level code runs to its end, every timer keeps firing,  *)
(* every request is answered or times out, and a callback that is due is   *)
(* run.                                                                    *)

\* a request for the bridges settles: its then or its catch callback runs
settleBridges ==
    \/ \E data \in BridgePayloads : fetchAvailableBridges_then(data)
    \/ \E error \in Errors : fetchAvailableBridges_catch(error)

\* a request for the serial ports settles
settleSerialPorts ==
    \/ \E data \in SerialPortPayloads : fetchAvailableSerialPorts_then(data)
    \/ \E error \in Errors : fetchAvailableSerialPorts_catch(error)

\* every request is answered or times out, and due callbacks are run
FairTransport ==
    /\ Spec
    /\ WF_vars(callPeriodically_bridges \/ callPeriodically_serial_ports)
    /\ WF_vars(fetchAvailableBridges_finally
                 \/ fetchAvailableSerialPorts_finally)
    /\ SF_vars(settleBridges)
    /\ SF_vars(settleSerialPorts)

\* and, besides, both timers keep firing
FairSpec ==
    /\ FairTransport
    /\ SF_vars(tick_bridges)
    /\ SF_vars(tick_serial_ports)

----------------------------------------------------------------------------
(* The properties. *)

RecordOf(s, t) == <<items(s, t), updating(s, t), warmed(s, t)>>

Other(t) == IF t = "bridges" THEN "serial_ports" ELSE "bridges"

\* C1: for every resource type at most one request is outstanding at any
\* time; a call that finds a request of its type unanswered sends none.
C1_AtMostOneOutstanding ==
    \A t \in ResourceTypes : outstanding[t] <= 1

\* C2: a call of a fetch action that finds its type warmed and should_fetch
\* false sends no request and changes nothing: not the store (either type's
\* record, should_fetch) and not the notifications.
C2_SkipChangesNothing ==
    [][\A t \in ResourceTypes :
          (last'.op = "fetch" /\ last'.of = t
             /\ warmed(state, t) /\ ~state.should_fetch)
          => /\ outstanding' = outstanding
             /\ state' = state
             /\ notifications' = notifications]_vars

\* a skipped call of a warmed type, with data in the store
C2_Witness ==
    /\ last = Ran("fetch", "serial_ports", Skipped)
    /\ warmed(state, "serial_ports") /\ ~state.should_fetch
    /\ items(state, "serial_ports") # <<>>

\* C3: when the callbacks of a fulfilled request of a type have run, the
\* type's items are the response's data, it is warmed and not updating.
C3_SuccessCommits ==
    \A t \in ResourceTypes :
        (last.op = "finally" /\ last.of = t
           /\ last.value.settled = "fulfilled")
        => /\ items(state, t) = last.value.data
           /\ warmed(state, t)
           /\ ~updating(state, t)

\* a fulfilled serial ports request has completed
C3_Witness ==
    /\ last = Ran("finally", "serial_ports", Fulfilled(<<"p1", "p2">>))
    /\ items(state, "serial_ports") = <<"p1", "p2">>

\* C4: no step of a fetch of one type (the call, its then, catch and
\* finally callbacks) changes items, updating or warmed of the other type.
C4_OwnRecordOnly ==
    [][\A t \in ResourceTypes :
          (last'.op \in {"fetch", "then", "catch", "finally"} /\ last'.of = t)
          => RecordOf(state', Other(t)) = RecordOf(state, Other(t))]_vars

\* C5: while a request of a type is outstanding, the type is updating.
C5_UpdatingWhileOutstanding ==
    \A t \in ResourceTypes : outstanding[t] > 0 => updating(state, t)

\* the first call of the type's fetch action, made when the module is
\* loaded, has been made
FirstCallMade(t) == IF t = "bridges" THEN pc # "L134" ELSE pc = "running"

\* a request of the type is awaiting its response, or the callbacks of one
\* are running
InCycle(t) == outstanding[t] > 0 \/ (ChainRunning /\ last.of = t)

C7_OfflineIsSilent ==
    [][\A t \in ResourceTypes :
          (last'.op \in {"catch", "finally"} /\ last'.of = t
             /\ last'.value = Rejected(backend_offline_error))
          => /\ items(state', t) = <<>>
             /\ warmed(state', t) = warmed(state, t)
             /\ notifications' = notifications]_vars

\* a warmed type with data has failed offline: empty, still warmed, silent
C7_Witness ==
    /\ last = Ran("finally", "bridges", Rejected(backend_offline_error))
    /\ warmed(state, "bridges")
    /\ items(state, "bridges") = <<>>
    /\ notifications = <<>>

\* the notification is of the type t
TaggedFor(n, t) ==
    /\ n.service = bridget_service
    /\ IF t = "bridges"
       THEN n.type = "BRIDGES_FETCH_FAIL"
       ELSE n.type # "BRIDGES_FETCH_FAIL"

C9_WarmedMonotonic ==
    [][\A t \in ResourceTypes :
          warmed(state', t) # warmed(state, t)
          => /\ ~warmed(state, t) /\ warmed(state', t)
             /\ last'.op = "then" /\ last'.of = t]_vars

\* a warmed type has failed with a reported error and is still warmed
C9_Witness ==
    /\ last.op = "finally" /\ last.of = "bridges"
    /\ last.value.settled = "rejected"
    /\ last.value.error # backend_offline_error
    /\ warmed(state, "bridges")

\* C10: a call of a fetch action that finds should_fetch true sends a
\* request, whether its type is warmed or not.
C10_ForcedFetchSends ==
    [][\A t \in ResourceTypes :
          (last'.op = "fetch" /\ last'.of = t /\ state.should_fetch)
          => /\ outstanding'[t] = outstanding[t] + 1
             /\ last'.value = Pending]_vars

\* a request of a warmed type has been sent after startFetching
C10_Witness ==
    /\ last = Ran("fetch", "serial_ports", Pending)
    /\ warmed(state, "serial_ports") /\ state.should_fetch
    /\ outstanding["serial_ports"] > 0

\* C11: a commit is one step for whoever looks at the store next: once the
\* then or catch callback of a type has run, the type's record is committed
\* as a whole (items, and with them updating false and, after a success,
\* warmed true); no state shows the new items beside the old flags.
C11_CommitIsAtomic ==
    \A t \in ResourceTypes :
        (ChainRunning /\ last.of = t)
        => /\ items(state, t) = last.value.data
           /\ ~updating(state, t)
           /\ last.value.settled = "fulfilled" => warmed(state, t)

\* C12: a type is not updating when a call of its fetch action has ended,
\* whichever way: skipped, or with the callbacks of its request run after a
\* success, an offline failure or a reported failure.
C12_CycleEndsNotUpdating ==
    \A t \in ResourceTypes :
        \/ last = Ran("fetch", t, Skipped)
        \/ (last.op = "finally" /\ last.of = t)
        => ~updating(state, t)

\* a call of the serial ports' fetch action was skipped
C12_Witness ==
    /\ last = Ran("fetch", "serial_ports", Skipped)
    /\ ~updating(state, "serial_ports")
    /\ items(state, "serial_ports") # <<>>

\* C13: every request that was sent settles and its callbacks run to the
\* end: while a request of a type is outstanding, a then or catch callback
\* of the type eventually runs, its finally callback follows, and the type
\* eventually is not updating.
C13_RequestsResolve ==
    \A t \in ResourceTypes :
        /\ (outstanding[t] > 0) ~> (ChainRunning /\ last.of = t)
        /\ (ChainRunning /\ last.of = t)
             ~> (last.op = "finally" /\ last.of = t)
        /\ (outstanding[t] > 0) ~> ~updating(state, t)

\* the first request of the serial ports has settled and its callbacks ran
C13_Witness ==
    /\ last.op = "finally" /\ last.of = "serial_ports"
    /\ outstanding["serial_ports"] = 0
    /\ ~updating(state, "serial_ports")

\* the periodic call of the type can be made now
CanTick(t) ==
    IF t = "bridges" THEN ENABLED tick_bridges ELSE ENABLED tick_serial_ports

C14_OneReportPerFailure ==
    [][IF last'.op = "catch" /\ last'.value.error # backend_offline_error
       THEN /\ Len(notifications') = Len(notifications) + 1
            /\ SubSeq(notifications', 1, Len(notifications)) = notifications
       ELSE notifications' = notifications]_vars

\* the same failure of the bridges, reported twice
C14_Witness ==
    /\ Len(notifications) = 2
    /\ notifications[1] = BridgesNotification("timeout of 10000ms exceeded")
    /\ notifications[2] = notifications[1]

\* C16: startFetching sets should_fetch, stopFetching clears it, and both
\* leave the records of both types alone; no step of a fetch changes
\* should_fetch; the first call on a warmed type after stopFetching is
\* skipped.
C16_FlagOnlyByStartStop ==
    [][/\ last'.op = "startFetching" =>
            state' = [state EXCEPT !.should_fetch = TRUE]
       /\ last'.op = "stopFetching" =>
            state' = [state EXCEPT !.should_fetch = FALSE]
       /\ last'.op \in {"fetch", "then", "catch", "finally"} =>
            state'.should_fetch = state.should_fetch
       /\ \A t \in ResourceTypes :
            (last.op = "stopFetching" /\ warmed(state, t)
               /\ last'.op = "fetch" /\ last'.of = t)
            => last'.value = Skipped]_vars

\* a call on a warmed type is skipped although a forced request of the type,
\* sent before stopFetching, is still outstanding
C16_Witness ==
    /\ last = Ran("fetch", "bridges", Skipped)
    /\ ~state.should_fetch
    /\ outstanding["bridges"] > 0

\* C17: a failure is classified by its kind: the catch callback reports
\* none of the errors of the offline kind, whichever object carries it,
\* and every error of another kind.
C17_ClassifiedByKind ==
    [][last'.op = "catch" =>
          IF kind(last'.value.error) = "offline"
          THEN notifications' = notifications
          ELSE Len(notifications') = Len(notifications) + 1]_vars

\* C18: until the first call of a type's fetch action the type has no
\* items, is not warmed and is updating, and should_fetch is false; that
\* first call is not skipped: it sends the type's first request.
C18_ColdStart ==
    /\ [](\A t \in ResourceTypes :
            ~FirstCallMade(t)
            => /\ items(state, t) = <<>>
               /\ ~warmed(state, t)
               /\ updating(state, t)
               /\ ~state.should_fetch
               /\ outstanding[t] = 0)
    /\ [][\A t \in ResourceTypes :
            (~FirstCallMade(t) /\ FirstCallMade(t)')
            => /\ last' = Ran("fetch", t, Pending)
               /\ outstanding'[t] = 1]_vars

\* both first calls have been made and both requests are outstanding
C18_Witness ==
    /\ pc = "running"
    /\ last = Ran("fetch", "serial_ports", Pending)
    /\ outstanding = [t \in ResourceTypes |-> 1]
    /\ state = BridgetStore

\* C19: when a failure of a type is reported, the failure is already
\* committed: in the state the catch callback reports from, the type's
\* items are empty and the type is not updating.
C19_CommitBeforeReport ==
    \A t \in ResourceTypes :
        (last.op = "catch" /\ last.of = t
           /\ last.value.error # backend_offline_error)
        => /\ items(state, t) = <<>>
           /\ ~updating(state, t)

\* C20: the callbacks of a rejected request of a warmed type leave the
\* type's items empty and the type warmed, whatever the error.
C20_FailureKeepsWarm ==
    [][\A t \in ResourceTypes :
          (last'.op \in {"catch", "finally"} /\ last'.of = t
             /\ last'.value.settled = "rejected" /\ warmed(state, t))
          => /\ items(state', t) = <<>>
             /\ warmed(state', t)]_vars

\* a forced request of the warmed serial ports has failed
C20_Witness ==
    /\ last.op = "finally" /\ last.of = "serial_ports"
    /\ last.value.settled = "rejected"
    /\ state.should_fetch
    /\ warmed(state, "serial_ports")
    /\ items(state, "serial_ports") = <<>>

\* the type is warmed, no refresh is forced and no request of the type is
\* outstanding or being handled: a call of its fetch action is skipped
Quiet(t) ==
    /\ warmed(state, t)
    /\ ~state.should_fetch
    /\ ~InCycle(t)

\* C21 as stated: in every state where a type is warmed, no refresh is
\* forced and no request of the type is outstanding, the type's items are
\* the data of the latest fulfilled request of the type.
C21_WarmHoldsLastSuccess ==
    \A t \in ResourceTypes :
        Quiet(t) => items(state, t) = history[t].data

\* C21: in every state where a type is warmed, no refresh is forced and no
\* request of the type is outstanding, the type's items are the data of the
\* latest fulfilled request of the type unless a request of the type was
\* rejected since, and are empty if one was.
C21_WarmHoldsLastOutcome ==
    \A t \in ResourceTypes :
        Quiet(t) => items(state, t) = IF history[t].failed
                                        THEN <<>>
                                        ELSE history[t].data

\* the warmed bridges are skipped with the empty list a rejected request
\* left behind, after a request had been fulfilled with bridges
C21_Witness ==
    /\ Idle
    /\ Quiet("bridges")
    /\ history["bridges"].failed
    /\ history["bridges"].data # <<>>
    /\ items(state, "bridges") = <<>>

\* C22: in every state the bridges' items are empty or the data a request
\* of the bridges endpoint was fulfilled with, and the serial ports' items
\* are empty or the data a request of the serial ports endpoint was
\* fulfilled with: no data crosses over and none is merged.
C22_NoCrossContamination ==
    /\ items(state, "bridges") \in BridgePayloads
    /\ items(state, "serial_ports") \in SerialPortPayloads
    /\ \A t \in ResourceTypes :
          items(state, t) # <<>> => items(state, t) = history[t].data

\* both types list the different data their own endpoints answered with
C22_Witness ==
    /\ Idle
    /\ items(state, "bridges") = <<"b1", "b2">>
    /\ items(state, "serial_ports") = <<"p1">>
    /\ history["bridges"].data = <<"b1", "b2">>
    /\ history["serial_ports"].data = <<"p1">>

\* C23: in every state a type with items is warmed, and a type that is not
\* warmed has had no request fulfilled and shows an empty list.
C23_DataImpliesWarm ==
    \A t \in ResourceTypes :
        /\ items(state, t) # <<>> => warmed(state, t)
        /\ ~warmed(state, t) => /\ history[t].data = <<>>
                                /\ ~(last.op = "then" /\ last.of = t)
                                /\ items(state, t) = <<>>

\* the callbacks of a rejected request of the bridges, which never had a
\* request fulfilled, have run next to warmed serial ports that list a port
C23_Witness ==
    /\ last.op = "finally" /\ last.of = "bridges"
    /\ last.value.settled = "rejected"
    /\ ~warmed(state, "bridges")
    /\ items(state, "bridges") = <<>>
    /\ warmed(state, "serial_ports")
    /\ items(state, "serial_ports") # <<>>

\* no request of the type has just been rejected
NoFailure(t) == ~(last.op = "catch" /\ last.of = t)

\* the step leaves the type's record alone and sends no request of the type
Settled(t) ==
    /\ RecordOf(state', t) = RecordOf(state, t)
    /\ outstanding'[t] <= outstanding[t]

\* C24: with the periodic calls going on, if from some point on no request
\* of a type is rejected, the type is eventually warmed and not updating
\* for good; if moreover the refresh is from some point on never forced,
\* eventually no step changes the type's record or sends a request of it.
C24_SuccessSettles ==
    \A t \in ResourceTypes :
        /\ <>[]NoFailure(t)
             => <>[](warmed(state, t) /\ ~updating(state, t))
        /\ (<>[]NoFailure(t) /\ <>[](~state.should_fetch))
             => <>[][Settled(t)]_vars

\* a periodic call of the serial ports is skipped: their latest request
\* was fulfilled with a port, they are warmed and not updating
C24_Witness ==
    /\ last = Ran("fetch", "serial_ports", Skipped)
    /\ pc = "running"
    /\ ~history["serial_ports"].failed
    /\ items(state, "serial_ports") = <<"p1">>
    /\ warmed(state, "serial_ports")
    /\ ~updating(state, "serial_ports")
    /\ outstanding["serial_ports"] = 0

====
